---------------------------- MODULE Spec2Model ----------------------------
(***************************************************************************)
(* A model of the sleep-duration calculator (src/src/sleepCalculator.ts).  *)
(*                                                                         *)
(* Instants are integers: milliseconds since the model's epoch, which is   *)
(* 00:00 UTC of day 0.  A Date object is its instant.  Time texts are      *)
(* sequences of one-character strings.  Offsets follow the sign of         *)
(* Date.prototype.getTimezoneOffset: minutes to ADD to local time to get   *)
(* UTC (300 for UTC-5).                                                    *)
(*                                                                         *)
(* The host is an engine on which new Date(date.toLocaleString("en-US"))   *)
(* reads the text back as a local wall clock, to the second.  The host's   *)
(* zone and the zones Intl knows are UTC and a zone with one transition.   *)
(* Each part of the calculator has its specification: SpecParse (time      *)
(* texts), SpecCalc (calculateSleepDuration), SpecClassify (validation and *)
(* formatting under changing guidelines), SpecGuide (every operation).     *)
(***************************************************************************)
EXTENDS Integers, Sequences, FiniteSets, TLC

VARIABLES
  guidelines,       \* this.guidelines
  defaultDate,      \* this.defaultDate
  defaultTimezone,  \* this.defaultTimezone
  sysZone,          \* the host's local time zone (environment)
  clock,            \* the host's current time, to the second (environment)
  supplied,         \* history: per threshold, the value most recently supplied
  held,             \* the table a caller got from getGuidelines, or NoTable
  last              \* the most recent call: its name, arguments and outcome

vars == <<guidelines, defaultDate, defaultTimezone, sysZone, clock, supplied, held, last>>

-----------------------------------------------------------------------------
(* Bounds of the model *)

\* time texts are spelled with hours 0..MaxHour
MaxHour == 25
\* at most this many blanks between the digits and the am/pm marker
MaxSpaces == 2
\* records handed to validate/format have hours 0..MaxRecordHours
MaxRecordHours == 11

-----------------------------------------------------------------------------
(* Units *)

MsPerMinute == 1000 * 60
MsPerSecond == MsPerMinute \div 60
MsPerHour   == 60 * MsPerMinute
MsPerDay    == 24 * MsPerHour

\* Math.floor(a / b) for b > 0
Floor(a, b) == a \div b

\* truncation toward zero of a / b for b > 0 (ToIntegerOrInfinity)
Trunc(a, b) == IF a >= 0 THEN a \div b ELSE 0 - ((0 - a) \div b)

\* the JavaScript remainder a % b for b > 0: it has the sign of a
JsRem(a, b) == a - b * Trunc(a, b)

-----------------------------------------------------------------------------
(* Time zones of the host (Intl): a zone has one offset before its         *)
(* transition instant and one from it on.                                  *)

\* the instant New York's clocks go from 02:00 EST to 03:00 EDT
DstStart == 3 * MsPerDay + 7 * MsPerHour

ZoneTable ==
  [ z \in {"UTC", "America/New_York"} |->
      IF z = "UTC" THEN [before |-> 0, after |-> 0, trans |-> 0]
      ELSE [before |-> 5 * 60, after |-> 4 * 60, trans |-> DstStart] ]

ZoneNames == DOMAIN ZoneTable

\* whether Intl resolves the identifier
Resolvable(tz) == tz \in ZoneNames

\* the zone's offset, in minutes, at instant t
ZoneOffset(z, t) ==
  IF t < ZoneTable[z].trans THEN ZoneTable[z].before ELSE ZoneTable[z].after

\* the zone's wall clock at instant t, as milliseconds since 00:00 of day 0
WallOf(z, t) == t - ZoneOffset(z, t) * MsPerMinute

\* the instant at which the zone's wall clock shows w; a wall time skipped by
\* the transition is read with the offset before it (ECMAScript LocalTime)
InstantOf(z, w) ==
  LET tb == w + ZoneTable[z].before * MsPerMinute
      ta == w + ZoneTable[z].after * MsPerMinute
  IN IF tb < ZoneTable[z].trans THEN tb
     ELSE IF ta >= ZoneTable[z].trans THEN ta
     ELSE tb

-----------------------------------------------------------------------------
(* The Date methods the calculator uses, in the host's zone *)

\* date.getTimezoneOffset()
DateGetTimezoneOffset(t) == ZoneOffset(sysZone, t)

\* date.getMinutes()
DateGetMinutes(t) == (WallOf(sysZone, t) \div MsPerMinute) % 60

\* date.setHours(h, m, s, 0): the local calendar day is kept
DateSetHours(t, h, m, s) ==
  LET w == WallOf(sysZone, t)
      dayStart == w - (w % MsPerDay)
  IN InstantOf(sysZone, dayStart + h * MsPerHour + m * MsPerMinute + s * MsPerSecond)

\* date.setMinutes(x) where x = xMs / 60000 may be fractional: the argument is
\* truncated toward zero; hour, second and millisecond are kept, and a minute
\* outside 0..59 carries into the hour
DateSetMinutes(t, xMs) ==
  LET n == Trunc(xMs, MsPerMinute)
  IN InstantOf(sysZone, WallOf(sysZone, t) + (n - DateGetMinutes(t)) * MsPerMinute)

\* date.setDate(date.getDate() + 1): the next calendar day, same wall clock
DateAddDay(t) == InstantOf(sysZone, WallOf(sysZone, t) + MsPerDay)

\* date.toLocaleString("en-US", {timeZone: tz}): the zone's wall clock to the
\* second (the text carries no milliseconds)
ToLocaleString(t, tz) == Floor(WallOf(tz, t), MsPerSecond)

\* new Date(text) of such a text: read as a wall clock of the host's zone
DateParse(wallSeconds) == InstantOf(sysZone, wallSeconds * MsPerSecond)

-----------------------------------------------------------------------------
(* Time texts *)

Digits == <<"0", "1", "2", "3", "4", "5", "6", "7", "8", "9">>

IsDigit(c) == \E i \in 1..Len(Digits) : Digits[i] = c

DigitValue(c) == (CHOOSE i \in 1..Len(Digits) : Digits[i] = c) - 1

\* \s of the regular expression (blank and tab of its characters)
IsSpace(c) == c \in {" ", "\t"}

\* String.prototype.toLowerCase on the letters the texts use
LowerChar(c) ==
  CASE c = "A" -> "a" [] c = "P" -> "p" [] c = "M" -> "m" [] c = "X" -> "x"
    [] OTHER -> c

ToLowerCase(s) == [i \in 1..Len(s) |-> LowerChar(s[i])]

\* parseInt(s, 10) of a text of digits
RECURSIVE ParseInt(_)
ParseInt(s) ==
  IF Len(s) = 0 THEN 0
  ELSE 10 * ParseInt(SubSeq(s, 1, Len(s) - 1)) + DigitValue(s[Len(s)])

\* time.match(/^(\d{1,2}):(\d{2})(?::(\d{2}))?\s*(am|pm)?$/i): the four groups,
\* <<>> for a group that did not take part
TimeRegexMatch(s) ==
  LET n == Len(s)
      D(i) == i <= n /\ IsDigit(s[i])
      Colon(i) == i <= n /\ s[i] = ":"
      \* \d{1,2} is greedy; giving a digit back never helps, the next must be ':'
      hl == IF D(1) /\ D(2) THEN 2 ELSE IF D(1) THEN 1 ELSE 0
      c1 == hl + 1
      okHM == hl > 0 /\ Colon(c1) /\ D(c1 + 1) /\ D(c1 + 2)
      p == c1 + 3
      hasSec == Colon(p) /\ D(p + 1) /\ D(p + 2)
      q == IF hasSec THEN p + 3 ELSE p
      r == CHOOSE i \in q..(n + 1) :
             /\ \A j \in q..(i - 1) : IsSpace(s[j])
             /\ (i = n + 1 \/ ~IsSpace(s[i]))
      hasPeriod == /\ r + 1 = n
                   /\ LowerChar(s[r]) \in {"a", "p"}
                   /\ LowerChar(s[r + 1]) = "m"
  IN IF okHM /\ (r = n + 1 \/ hasPeriod)
     THEN [matched |-> TRUE,
           g1 |-> SubSeq(s, 1, hl),
           g2 |-> SubSeq(s, c1 + 1, c1 + 2),
           g3 |-> IF hasSec THEN SubSeq(s, p + 1, p + 2) ELSE <<>>,
           g4 |-> IF hasPeriod THEN SubSeq(s, r, r + 1) ELSE <<>>]
     ELSE [matched |-> FALSE]

\* throw new Error(message)
Throw(message) == [thrown |-> TRUE, message |-> message]

FormatErrorText == "Invalid time format: "
FormatErrorHint == ". Use HH:MM or HH:MM:SS format"
RangeErrorText  == "Invalid time values: "
TypeErrorText   == "Unsupported time format: "
WrapErrorText   == "Error calculating sleep duration: "

\* the 12-hour rule without its branch for 12 am (a faulty variant of To24Hour)
To24HourAmKept(hours, period) ==
  IF period = <<"p", "m">> /\ hours # 12 THEN hours + 12
  ELSE hours

\* "Handle 12-hour format"
To24Hour(hours, period) ==
  IF period = <<"p", "m">> /\ hours # 12 THEN hours + 12
  ELSE IF period = <<"a", "m">> /\ hours = 12 THEN 0
  ELSE hours

\* the range test with the hour allowed up to 24 (a faulty variant of OutOfRange)
OutOfRangeHour24(hours, minutes, seconds) ==
  hours < 0 \/ hours > 24 \/ minutes < 0 \/ minutes > 59 \/ seconds < 0 \/ seconds > 59

\* "Validate time values"
OutOfRange(hours, minutes, seconds) ==
  hours < 0 \/ hours > 23 \/ minutes < 0 \/ minutes > 59 \/ seconds < 0 \/ seconds > 59

\* the clock values of a matched text, or the range error
ClockOfGroups(time, hours, minutes, seconds) ==
  IF OutOfRange(hours, minutes, seconds)
  THEN Throw(<<RangeErrorText>> \o time)
  ELSE [thrown |-> FALSE, hours |-> hours, minutes |-> minutes, seconds |-> seconds]

\* what follows time.match: the format error, or the groups read as numbers
\* and the hour converted
ClockOfMatch(time, match) ==
  IF ~match.matched
  THEN Throw(<<FormatErrorText>> \o time \o <<FormatErrorHint>>)
  ELSE ClockOfGroups(time,
                     To24Hour(ParseInt(match.g1),
                              IF match.g4 # <<>> THEN ToLowerCase(match.g4) ELSE <<>>),
                     ParseInt(match.g2),
                     IF match.g3 # <<>> THEN ParseInt(match.g3) ELSE 0)

\* the string branch of parseTimeToDate up to the range test: the clock
\* values of a time text, or the error thrown
ParseClock(time) == ClockOfMatch(time, TimeRegexMatch(time))

-----------------------------------------------------------------------------
(* Time zone conversion.  Offsets are kept in milliseconds (the minutes of  *)
(* the code times 60000), so that the fractions of a minute the code        *)
(* computes are exact.                                                      *)

\* getTimezoneOffset(date, timezone), times 60000.  toLocaleString throws a
\* RangeError for an identifier Intl cannot resolve, which the catch turns
\* into the host's own offset.
GetTimezoneOffset(date, timezone) ==
  IF Resolvable(timezone)
  THEN LET utc == date + DateGetTimezoneOffset(date) * MsPerMinute
           target == DateParse(ToLocaleString(utc, timezone))
       IN utc - target
  ELSE DateGetTimezoneOffset(date) * MsPerMinute

\* whether the try block of convertToTimezone throws: nothing in it can, its
\* only calls that throw are inside getTimezoneOffset's own try
ConvertThrows(date, timezone, handleDST) == FALSE

WarnText == "Timezone conversion failed for "
WarnHint == ", using local timezone"

\* "Adjust for DST if necessary": targetDate.setMinutes(targetDate.getMinutes()
\* + dstAdjustment) when the two offsets differ
AdjustMinutes(targetDate, targetOffset, currentOffset) ==
  IF targetOffset # currentOffset
  THEN DateSetMinutes(targetDate,
                      DateGetMinutes(targetDate) * MsPerMinute
                        + (targetOffset - currentOffset))
  ELSE targetDate

\* the try block with the handleDST test left out (a faulty variant of
\* ConvertTarget)
ConvertTargetAlwaysAdjusted(targetDate, timezone, handleDST, now) ==
  AdjustMinutes(targetDate, GetTimezoneOffset(targetDate, timezone),
                GetTimezoneOffset(now, timezone))

\* the try block of convertToTimezone from targetDate = new Date(utc) on
ConvertTarget(targetDate, timezone, handleDST, now) ==
  IF handleDST
  THEN AdjustMinutes(targetDate, GetTimezoneOffset(targetDate, timezone),
                     GetTimezoneOffset(now, timezone))
  ELSE targetDate

\* convertToTimezone(date, timezone, handleDST) when `new Date()` reads now:
\* the Date returned and what console.warn printed
ConvertToTimezone(date, timezone, handleDST, now) ==
  IF ConvertThrows(date, timezone, handleDST)
  THEN [date |-> date, warned |-> <<WarnText, timezone, WarnHint>>]
  ELSE [date |-> ConvertTarget(date + DateGetTimezoneOffset(date) * MsPerMinute,
                               timezone, handleDST, now),
        warned |-> <<>>]

\* the string branch of parseTimeToDate after the range test: the clock
\* values set on a copy of the base date, then converted
ClockToDate(clk, baseDate, timezone, handleDST, now) ==
  IF clk.thrown THEN clk
  ELSE [thrown |-> FALSE] @@
       ConvertToTimezone(DateSetHours(baseDate, clk.hours, clk.minutes, clk.seconds),
                         timezone, handleDST, now)

\* parseTimeToDate(time, baseDate, timezone, handleDST): a time is a text
\* ([kind |-> "string", text]), a Date ([kind |-> "date", instant]) or a
\* value of another type ([kind |-> its typeof])
ParseTimeToDate(time, baseDate, timezone, handleDST, now) ==
  IF time.kind = "date"
  THEN [thrown |-> FALSE] @@ ConvertToTimezone(time.instant, timezone, handleDST, now)
  ELSE IF time.kind = "string"
  THEN ClockToDate(ParseClock(time.text), baseDate, timezone, handleDST, now)
  ELSE Throw(<<TypeErrorText, time.kind>>)

\* "If wake-up time is before bedtime, assume it's the next day"
NextDayIfNotLater(wakeUpDate, bedtimeDate) ==
  IF wakeUpDate <= bedtimeDate THEN DateAddDay(wakeUpDate) ELSE wakeUpDate

\* the catch of calculateSleepDuration under which the error of the wake-up
\* time wins (a faulty variant of FirstError)
LastError(bed, wake) == IF wake.thrown THEN wake ELSE bed

\* the error that leaves the try block: statements run in order, so the
\* bedtime's error is thrown before the wake-up time is looked at
FirstError(bed, wake) == IF bed.thrown THEN bed ELSE wake

\* the record calculateSleepDuration returns for the two Dates
SleepData(bedtimeDate, wakeUpDate, timezone) ==
  LET durationMs == wakeUpDate - bedtimeDate
      totalMinutes == Floor(durationMs, MsPerMinute)
  IN [hours |-> Floor(totalMinutes, 60),
      minutes |-> JsRem(totalMinutes, 60),
      totalMinutes |-> totalMinutes,
      bedtime |-> bedtimeDate,
      wakeUpTime |-> wakeUpDate,
      durationMs |-> durationMs,
      timezone |-> timezone]

\* calculateSleepDuration from the outcomes of its two parseTimeToDate calls
CalculateFrom(bed, wake, timezone) ==
  IF bed.thrown \/ wake.thrown
  THEN Throw(<<WrapErrorText>> \o FirstError(bed, wake).message)
  ELSE [thrown |-> FALSE,
        warned |-> bed.warned \o wake.warned,
        data |-> SleepData(bed.date, NextDayIfNotLater(wake.date, bed.date), timezone)]

\* calculateSleepDuration once timezone, baseDate and handleDST are settled
CalculateWith(bedtime, wakeUpTime, timezone, baseDate, handleDST, now1, now2) ==
  CalculateFrom(ParseTimeToDate(bedtime, baseDate, timezone, handleDST, now1),
                ParseTimeToDate(wakeUpTime, baseDate, timezone, handleDST, now2),
                timezone)

\* calculateSleepDuration(bedtime, wakeUpTime, options) on the calculator as
\* it is, the two `new Date()` of the conversions reading now1 and now2
CalculateSleepDuration(bedtime, wakeUpTime, options, now1, now2) ==
  CalculateWith(bedtime, wakeUpTime,
                IF "timezone" \in DOMAIN options /\ options.timezone # ""
                THEN options.timezone ELSE defaultTimezone,
                IF "date" \in DOMAIN options THEN options.date ELSE defaultDate,
                ~("handleDST" \in DOMAIN options /\ options.handleDST = FALSE),
                now1, now2)

-----------------------------------------------------------------------------
(* Formatting and classification.  A record's duration in hours,           *)
(* hours + minutes / 60, is kept as its minutes, 60 * hours + minutes, and *)
(* a threshold of g hours as 60 * g.                                        *)

\* String(n) of a number n >= 0
RECURSIVE Decimal(_)
Decimal(n) ==
  IF n < 10 THEN <<Digits[n + 1]>> ELSE Decimal(n \div 10) \o <<Digits[(n % 10) + 1]>>

\* formatSleepDuration with the plural written for every value (a faulty variant of
\* FormatSleepDuration)
FormatAlwaysPlural(sleepData) ==
  LET hours == sleepData.hours
      minutes == sleepData.minutes
  IN IF hours = 0 THEN Decimal(minutes) \o <<" minute", "s">>
     ELSE IF minutes = 0 THEN Decimal(hours) \o <<" hour", "s">>
     ELSE Decimal(hours) \o <<" hour", "s", " and ">> \o Decimal(minutes) \o <<" minute", "s">>

\* formatSleepDuration(sleepData)
FormatSleepDuration(sleepData) ==
  LET hours == sleepData.hours
      minutes == sleepData.minutes
      hs == IF hours # 1 THEN <<"s">> ELSE <<>>
      ms == IF minutes # 1 THEN <<"s">> ELSE <<>>
  IN IF hours = 0 THEN Decimal(minutes) \o <<" minute">> \o ms
     ELSE IF minutes = 0 THEN Decimal(hours) \o <<" hour">> \o hs
     ELSE Decimal(hours) \o <<" hour">> \o hs \o <<" and ">>
          \o Decimal(minutes) \o <<" minute">> \o ms

InsufficientText == "You may not be getting enough sleep. Consider going to bed earlier."
ExcessiveText    == "You may be sleeping too much. Consider adjusting your sleep schedule."
OptimalText      == "Great! You're getting the recommended amount of sleep."
AdequateText     == "Your sleep duration is adequate but could be optimized."

\* the tests of validateSleepDuration with the excessive test first (a faulty variant
\* of Classify)
ClassifyExcessiveFirst(totalMinutes, g) ==
  IF totalMinutes > 60 * g.excessive
  THEN [status |-> "excessive", recommendation |-> ExcessiveText]
  ELSE IF totalMinutes < 60 * g.insufficient
  THEN [status |-> "insufficient", recommendation |-> InsufficientText]
  ELSE IF totalMinutes >= 60 * g.adequate /\ totalMinutes <= 60 * g.optimal
  THEN [status |-> "optimal", recommendation |-> OptimalText]
  ELSE [status |-> "adequate", recommendation |-> AdequateText]

\* the tests with the optimal band open at its lower end (a faulty variant of Classify)
ClassifyOpenBand(totalMinutes, g) ==
  IF totalMinutes < 60 * g.insufficient
  THEN [status |-> "insufficient", recommendation |-> InsufficientText]
  ELSE IF totalMinutes > 60 * g.excessive
  THEN [status |-> "excessive", recommendation |-> ExcessiveText]
  ELSE IF totalMinutes > 60 * g.adequate /\ totalMinutes <= 60 * g.optimal
  THEN [status |-> "optimal", recommendation |-> OptimalText]
  ELSE [status |-> "adequate", recommendation |-> AdequateText]

\* the if-else chain of validateSleepDuration on the table g
Classify(totalMinutes, g) ==
  IF totalMinutes < 60 * g.insufficient
  THEN [status |-> "insufficient", recommendation |-> InsufficientText]
  ELSE IF totalMinutes > 60 * g.excessive
  THEN [status |-> "excessive", recommendation |-> ExcessiveText]
  ELSE IF totalMinutes >= 60 * g.adequate /\ totalMinutes <= 60 * g.optimal
  THEN [status |-> "optimal", recommendation |-> OptimalText]
  ELSE [status |-> "adequate", recommendation |-> AdequateText]

\* validateSleepDuration(sleepData) on the calculator's table; totalHours is
\* returned in hundredths, Math.round(totalHours * 100)
ValidateSleepDuration(sleepData) ==
  LET totalMinutes == 60 * sleepData.hours + sleepData.minutes
      verdict == Classify(totalMinutes, guidelines)
  IN [status |-> verdict.status,
      recommendation |-> verdict.recommendation,
      totalHours |-> Floor(totalMinutes * 100 + 30, 60)]

-----------------------------------------------------------------------------
(* The calculator's configuration *)

Thresholds == {"insufficient", "adequate", "optimal", "excessive"}

DEFAULT_GUIDELINES ==
  [insufficient |-> 6, adequate |-> 7, optimal |-> 9, excessive |-> 10]

\* { ...a, ...b } with the later table spread first (a faulty variant of Spread)
SpreadReversed(a, b) ==
  [k \in (DOMAIN a) \cup (DOMAIN b) |-> IF k \in DOMAIN a THEN a[k] ELSE b[k]]

\* { ...a, ...b }: the keys of both, b's value where both have the key
Spread(a, b) ==
  [k \in (DOMAIN a) \cup (DOMAIN b) |-> IF k \in DOMAIN b THEN b[k] ELSE a[k]]

\* no table held by the caller
NoTable == [none |-> TRUE]

\* getGuidelines returning the calculator's own table (a faulty variant of GetGuidelines)
GetGuidelinesShared == [table |-> guidelines, shared |-> TRUE]

\* getGuidelines(): a fresh copy of the table, sharing nothing with it
GetGuidelines == [table |-> Spread(guidelines, <<>>), shared |-> FALSE]

\* the call record of a calculator on which nothing was called yet
NoCall == [op |-> "constructor"]

\* new SleepCalculator(config) on a host in zone z at time now: a config is a
\* record with any of the keys guidelines, defaultDate, defaultTimezone
Constructor(config, z, now) ==
  /\ sysZone = z
  /\ clock = now
  /\ guidelines =
       Spread(DEFAULT_GUIDELINES,
              IF "guidelines" \in DOMAIN config THEN config.guidelines ELSE <<>>)
  /\ defaultDate =
       IF "defaultDate" \in DOMAIN config THEN config.defaultDate ELSE now
  /\ defaultTimezone =
       IF "defaultTimezone" \in DOMAIN config THEN config.defaultTimezone ELSE z
  /\ supplied = [k \in Thresholds |->
                   IF "guidelines" \in DOMAIN config /\ k \in DOMAIN config.guidelines
                   THEN config.guidelines[k] ELSE DEFAULT_GUIDELINES[k]]
  /\ held = NoTable

\* a morning of day 1, host time
Morning == 1 * MsPerDay + 9 * MsPerHour

-----------------------------------------------------------------------------
(* Time texts as callers write them *)

AmMarkers == {<<"a", "m">>, <<"A", "M">>}
PmMarkers == {<<"p", "m">>, <<"P", "M">>, <<"P", "m">>}
Markers == {<<>>, <<"x", "m">>, <<"p">>} \cup AmMarkers \cup PmMarkers

\* a spelling: the hour (padded to two digits or not), the minute (cut to one
\* digit or not), the second if written, the blanks and the marker
Spellings ==
  { c \in [hour : 0..MaxHour, pad : BOOLEAN, minute : {0, 5, 30, 59, 61},
           short : BOOLEAN, hasSec : BOOLEAN, second : {0, 30, 59, 75},
           spaces : 0..MaxSpaces, marker : Markers] :
      /\ (c.hour >= 10 => c.pad)
      /\ (~c.hasSec => c.second = 0)
      /\ (c.short => c.minute = 5) }

TwoDigits(n) == <<Digits[(n \div 10) + 1], Digits[(n % 10) + 1]>>

Blanks(n) == [i \in 1..n |-> " "]

\* the text of a spelling, as in "7:30 pm", "07:15:30", "25:61"
Spell(c) ==
  (IF c.pad THEN TwoDigits(c.hour) ELSE <<Digits[c.hour + 1]>>)
  \o <<":">>
  \o (IF c.short THEN <<Digits[c.minute + 1]>> ELSE TwoDigits(c.minute))
  \o (IF c.hasSec THEN <<":">> \o TwoDigits(c.second) ELSE <<>>)
  \o Blanks(c.spaces)
  \o c.marker

-----------------------------------------------------------------------------
(* Parsing alone *)

\* a caller is about to parse one text
InitParse ==
  /\ Constructor(<<>>, "UTC", Morning)
  /\ \E c \in Spellings : last = [op |-> "text", spelling |-> c, time |-> Spell(c)]

ParseText ==
  /\ last.op = "text"
  /\ last' = [op |-> "parseTime", spelling |-> last.spelling, time |-> last.time,
              ret |-> ParseClock(last.time)]
  /\ UNCHANGED <<guidelines, defaultDate, defaultTimezone, sysZone, clock,
                 supplied, held>>

SpecParse == InitParse /\ [][ParseText]_vars

\* the hour a written hour and marker stand for, as the specification words it
ClaimedHour(c) ==
  IF c.marker \in PmMarkers /\ c.hour # 12 THEN c.hour + 12
  ELSE IF c.marker \in AmMarkers /\ c.hour = 12 THEN 0
  ELSE c.hour

\* C5: a parsed text's hour is the written hour + 12 for pm with hour # 12, 0
\* for am with hour 12, and the written hour otherwise; its minute and second
\* are the written ones (second 0 when none is written), whatever the marker
C5_TwelveHourRule ==
  (last.op = "parseTime" /\ ~last.ret.thrown) =>
    /\ last.ret.hours = ClaimedHour(last.spelling)
    /\ last.ret.minutes = last.spelling.minute
    /\ last.ret.seconds = last.spelling.second

\* "12:30 am" was parsed to hour 0, minute 30
C5_Witness ==
  /\ last.op = "parseTime"
  /\ last.time = <<"1", "2", ":", "3", "0", " ", "a", "m">>
  /\ ~last.ret.thrown
  /\ last.ret.hours = 0
  /\ last.ret.minutes = 30

\* whether a spelling is a text of the grammar: one or two hour digits, two
\* minute digits, optionally two second digits, blanks, optionally am or pm
InGrammar(c) == ~c.short /\ c.marker \in ({<<>>} \cup AmMarkers \cup PmMarkers)

\* C6: parsing throws the format error exactly for the texts outside the
\* grammar, the range error (another message) exactly for the texts of the
\* grammar whose converted hour is outside 0..23 or whose minute or second is
\* outside 0..59, and succeeds for every other text
C6_ErrorKinds ==
  last.op = "parseTime" =>
    LET c == last.spelling
    IN IF ~InGrammar(c)
       THEN last.ret.thrown /\ Head(last.ret.message) = FormatErrorText
       ELSE IF \/ ClaimedHour(c) \notin 0..23
               \/ c.minute \notin 0..59
               \/ c.second \notin 0..59
       THEN /\ last.ret.thrown
            /\ Head(last.ret.message) = RangeErrorText
            /\ Head(last.ret.message) # FormatErrorText
       ELSE ~last.ret.thrown

\* "25:61" was refused with the range error
C6_Witness ==
  /\ last.op = "parseTime"
  /\ last.time = <<"2", "5", ":", "6", "1">>
  /\ last.ret.thrown
  /\ Head(last.ret.message) = RangeErrorText

-----------------------------------------------------------------------------
(* Calculations *)

\* a spelling with two-digit minutes
Written(hour, pad, minute, hasSec, second, spaces, marker) ==
  [hour |-> hour, pad |-> pad, minute |-> minute, short |-> FALSE,
   hasSec |-> hasSec, second |-> second, spaces |-> spaces, marker |-> marker]

\* "22:30", "07:15", "07:00", "07:01", "07:00:30", "10:30 PM", "6:45 AM",
\* "00:00", "23:59:59", "25:61", "7:30xm"
CalcSpellings ==
  { Written(22, TRUE, 30, FALSE, 0, 0, <<>>),
    Written(7, TRUE, 15, FALSE, 0, 0, <<>>),
    Written(7, TRUE, 0, FALSE, 0, 0, <<>>),
    Written(7, TRUE, 1, FALSE, 0, 0, <<>>),
    Written(7, TRUE, 0, TRUE, 30, 0, <<>>),
    Written(10, TRUE, 30, FALSE, 0, 1, <<"P", "M">>),
    Written(6, FALSE, 45, FALSE, 0, 1, <<"A", "M">>),
    Written(0, TRUE, 0, FALSE, 0, 0, <<>>),
    Written(23, TRUE, 59, TRUE, 59, 0, <<>>),
    Written(25, TRUE, 61, FALSE, 0, 0, <<>>),
    Written(7, FALSE, 30, FALSE, 0, 0, <<"x", "m">>) }

\* Date objects a caller passes: 23:00 UTC of day 1, 08:30 UTC of day 2,
\* 07:00 UTC of day 5
CalcDates ==
  { 1 * MsPerDay + 23 * MsPerHour,
    2 * MsPerDay + 8 * MsPerHour + 30 * MsPerMinute,
    5 * MsPerDay + 7 * MsPerHour }

\* the time arguments: texts (with the spelling they were written from),
\* Dates, and a number
TimeInputs ==
  { [kind |-> "string", text |-> Spell(c), spelling |-> c] : c \in CalcSpellings }
  \cup { [kind |-> "date", instant |-> d] : d \in CalcDates }
  \cup { [kind |-> "number"] }

\* noon UTC of day 2
Day2Noon == 2 * MsPerDay + 12 * MsPerHour

\* the options arguments: any of the keys timezone, date, handleDST
TimezoneOptions == { <<>>, [timezone |-> "UTC"], [timezone |-> "America/New_York"],
                     [timezone |-> "Mars/Olympus"], [timezone |-> ""] }
DateOptions == { <<>>, [date |-> Day2Noon] }
DstOptions == { <<>>, [handleDST |-> FALSE] }
CalcOptions ==
  { tz @@ d @@ h : tz \in TimezoneOptions, d \in DateOptions, h \in DstOptions }

\* the milliseconds of the host's clock when a `new Date()` reads it; the
\* second read of a call is not earlier than the first
NowMillis == {0, 500}

\* the host's clock at construction: day 1 (before New York's transition) or
\* day 5 (after it)
Clocks == { Morning, Morning + 4 * MsPerDay }

\* a calculator with the default configuration, and a caller about to call
\* calculateSleepDuration
InitCalc ==
  /\ \E z \in ZoneNames, now \in Clocks : Constructor(<<>>, z, now)
  /\ \E b \in TimeInputs, w \in TimeInputs, o \in CalcOptions,
        m1 \in NowMillis, m2 \in NowMillis :
       /\ m1 <= m2
       /\ last = [op |-> "call", bedtime |-> b, wakeUpTime |-> w, options |-> o,
               millis |-> <<m1, m2>>]

\* setDefaultTimezone(timezone)
SetDefaultTimezone ==
  /\ last.op = "call"
  /\ \E tz \in {"America/New_York", "Mars/Olympus"} : defaultTimezone' = tz
  /\ UNCHANGED <<guidelines, defaultDate, sysZone, clock, supplied, held, last>>

\* the call of calculateSleepDuration runs
Calculate ==
  /\ last.op = "call"
  /\ last' = [op |-> "calculateSleepDuration",
              bedtime |-> last.bedtime, wakeUpTime |-> last.wakeUpTime,
              options |-> last.options, millis |-> last.millis,
              ret |-> CalculateSleepDuration(last.bedtime, last.wakeUpTime, last.options,
                                             clock + last.millis[1],
                                             clock + last.millis[2])]
  /\ UNCHANGED <<guidelines, defaultDate, defaultTimezone, sysZone, clock,
                 supplied, held>>

NextCalc == SetDefaultTimezone \/ Calculate

SpecCalc == InitCalc /\ [][NextCalc]_vars

\* whether the last call was a calculateSleepDuration that returned a record
Returned == last.op = "calculateSleepDuration" /\ ~last.ret.thrown

\* C1: every record calculateSleepDuration returns has wakeUpTime later than
\* bedtime and durationMs = wakeUpTime - bedtime > 0
C1_WakeAfterBed ==
  Returned =>
    /\ last.ret.data.wakeUpTime > last.ret.data.bedtime
    /\ last.ret.data.durationMs = last.ret.data.wakeUpTime - last.ret.data.bedtime
    /\ last.ret.data.durationMs > 0

\* the seconds since midnight a spelling of the grammar stands for
ClockSeconds(c) == ClaimedHour(c) * 3600 + c.minute * 60 + c.second

\* the time zone a call works in: options.timezone unless it is absent or
\* the empty text
EffectiveTimezone ==
  IF "timezone" \in DOMAIN last.options /\ last.options.timezone # ""
  THEN last.options.timezone
  ELSE defaultTimezone

\* whether a zone has one offset at all times
NoTransition(z) == ZoneTable[z].before = ZoneTable[z].after

\* C2: for two time texts on one base date, with no offset change of the host
\* or of the time zone, the duration in minutes is (24:00 - bedtime) + wake-up
\* when the wake-up clock value is not later than the bedtime's, and
\* wake-up - bedtime when it is later
C2_CrossMidnight ==
  ( /\ Returned
    /\ last.bedtime.kind = "string"
    /\ last.wakeUpTime.kind = "string"
    /\ NoTransition(sysZone)
    /\ Resolvable(EffectiveTimezone)
    /\ NoTransition(EffectiveTimezone) ) =>
    LET b == ClockSeconds(last.bedtime.spelling)
        w == ClockSeconds(last.wakeUpTime.spelling)
        seconds == IF w <= b THEN (24 * 3600 - b) + w ELSE w - b
    IN /\ last.ret.data.durationMs > 0
       /\ last.ret.data.totalMinutes = seconds \div 60

\* whether a time argument makes parseTimeToDate throw
Invalid(time) ==
  \/ time.kind \notin {"string", "date"}
  \/ /\ time.kind = "string"
     /\ \/ ~InGrammar(time.spelling)
        \/ ClaimedHour(time.spelling) \notin 0..23
        \/ time.spelling.minute \notin 0..59
        \/ time.spelling.second \notin 0..59

\* the message of the error an invalid time argument raises
OriginalMessage(time) ==
  IF time.kind # "string" THEN <<TypeErrorText, time.kind>>
  ELSE IF ~InGrammar(time.spelling) THEN <<FormatErrorText>> \o time.text \o <<FormatErrorHint>>
  ELSE <<RangeErrorText>> \o time.text

\* C7: when a time argument is invalid, calculateSleepDuration returns no
\* record and throws one kind of error, whose message is the fixed prefix
\* followed by the message of the original error, the bedtime's when both
\* arguments are invalid; it throws nothing else
C7_ErrorsWrapped ==
  last.op = "calculateSleepDuration" =>
    /\ last.ret.thrown <=> (Invalid(last.bedtime) \/ Invalid(last.wakeUpTime))
    /\ last.ret.thrown =>
         /\ "data" \notin DOMAIN last.ret
         /\ Head(last.ret.message) = WrapErrorText
         /\ Tail(last.ret.message) =
              OriginalMessage(IF Invalid(last.bedtime) THEN last.bedtime
                              ELSE last.wakeUpTime)

\* both arguments were invalid ("25:61" and a number) and the range error of
\* the bedtime was reported
C7_Witness ==
  /\ last.op = "calculateSleepDuration"
  /\ last.bedtime.kind = "string"
  /\ last.bedtime.text = <<"2", "5", ":", "6", "1">>
  /\ last.wakeUpTime.kind = "number"
  /\ last.ret.thrown
  /\ last.ret.message = <<WrapErrorText, RangeErrorText, "2", "5", ":", "6", "1">>

\* the instant of a time argument on the base date, by the host's clock
LocalInstant(time) ==
  IF time.kind = "date" THEN time.instant
  ELSE DateSetHours(IF "date" \in DOMAIN last.options THEN last.options.date
                    ELSE defaultDate,
                    ClaimedHour(time.spelling), time.spelling.minute,
                    time.spelling.second)

\* C8: with a time zone identifier that cannot be resolved, the calculation
\* of two valid times returns a record, the bedtime is the unmodified
\* local-system instant, and a warning was printed
C8_FallbackWarned ==
  ( /\ last.op = "calculateSleepDuration"
    /\ ~Resolvable(EffectiveTimezone)
    /\ ~Invalid(last.bedtime)
    /\ ~Invalid(last.wakeUpTime) ) =>
    /\ ~last.ret.thrown
    /\ last.ret.data.bedtime = LocalInstant(last.bedtime)
    /\ last.ret.warned # <<>>

-----------------------------------------------------------------------------
(* Classification and formatting under changing guidelines *)

\* tables a caller supplies: any of the four thresholds, each 5 or 8 hours
Partials ==
  UNION { [keys -> {5, 8}] : keys \in SUBSET Thresholds }

\* records a caller hands to validateSleepDuration and formatSleepDuration
Records ==
  [hours : 0..MaxRecordHours, minutes : {0, 1, 30, 59}]

InitClassify ==
  /\ \E p \in Partials : Constructor([guidelines |-> p], "UTC", Morning)
  /\ last = NoCall

\* updateGuidelines(newGuidelines): this.guidelines becomes a new table, which
\* a table handed out before does not share
UpdateGuidelines(newGuidelines) ==
  /\ guidelines' = Spread(guidelines, newGuidelines)
  /\ supplied' = [k \in Thresholds |->
                    IF k \in DOMAIN newGuidelines THEN newGuidelines[k] ELSE supplied[k]]
  /\ held' = IF held = NoTable THEN held ELSE [held EXCEPT !.shared = FALSE]
  /\ last' = [op |-> "updateGuidelines"]
  /\ UNCHANGED <<defaultDate, defaultTimezone, sysZone, clock>>

\* validateSleepDuration(sleepData)
Validate(sleepData) ==
  /\ last' = [op |-> "validateSleepDuration", sleepData |-> sleepData,
              ret |-> ValidateSleepDuration(sleepData)]
  /\ UNCHANGED <<guidelines, defaultDate, defaultTimezone, sysZone, clock,
                 supplied, held>>

\* formatSleepDuration(sleepData)
Format(sleepData) ==
  /\ last' = [op |-> "formatSleepDuration", sleepData |-> sleepData,
              ret |-> FormatSleepDuration(sleepData)]
  /\ UNCHANGED <<guidelines, defaultDate, defaultTimezone, sysZone, clock,
                 supplied, held>>

ClassifyUpdate == \E p \in Partials : UpdateGuidelines(p)
ClassifyValidate == \E r \in Records : Validate(r)
ClassifyFormat == \E r \in Records : Format(r)

NextClassify == ClassifyUpdate \/ ClassifyValidate \/ ClassifyFormat

SpecClassify == InitClassify /\ [][NextClassify]_vars

\* the status the ordered test of the specification gives t hours (as
\* minutes) under table g, with its recommendation
ClaimedStatus(t, g) ==
  IF t < 60 * g.insufficient THEN "insufficient"
  ELSE IF t > 60 * g.excessive THEN "excessive"
  ELSE IF 60 * g.adequate <= t /\ t <= 60 * g.optimal THEN "optimal"
  ELSE "adequate"

ClaimedText(status) ==
  CASE status = "insufficient" -> InsufficientText
    [] status = "excessive" -> ExcessiveText
    [] status = "optimal" -> OptimalText
    [] status = "adequate" -> AdequateText

\* C3: validateSleepDuration returns the one status the ordered test gives
\* hours + minutes / 60 under the current guidelines (insufficient, else
\* excessive, else optimal, else adequate), with that status's fixed text
C3_OrderedTest ==
  last.op = "validateSleepDuration" =>
    LET t == 60 * last.sleepData.hours + last.sleepData.minutes
    IN /\ last.ret.status = ClaimedStatus(t, guidelines)
       /\ last.ret.recommendation = ClaimedText(last.ret.status)
       /\ Cardinality({InsufficientText, ExcessiveText, OptimalText, AdequateText}) = 4

\* a record below both a raised insufficient threshold and above a lowered
\* excessive one was classified insufficient: the first test won
C3_Witness ==
  /\ last.op = "validateSleepDuration"
  /\ guidelines.insufficient = 8
  /\ guidelines.excessive = 5
  /\ last.sleepData = [hours |-> 6, minutes |-> 30]
  /\ last.ret.status = "insufficient"

\* C4 as stated: under every table, a record of exactly guidelines.adequate
\* hours is classified optimal
C4_AdequateIsOptimal ==
  ( /\ last.op = "validateSleepDuration"
    /\ 60 * last.sleepData.hours + last.sleepData.minutes = 60 * guidelines.adequate ) =>
    last.ret.status = "optimal"

\* C4 as amended: a record of exactly guidelines.adequate hours is classified
\* optimal under every table with insufficient <= adequate <= optimal and
\* adequate <= excessive, and under no other table
C4_AdequateIsOptimalIfOrdered ==
  ( /\ last.op = "validateSleepDuration"
    /\ 60 * last.sleepData.hours + last.sleepData.minutes = 60 * guidelines.adequate ) =>
    ( last.ret.status = "optimal" <=>
        /\ guidelines.insufficient <= guidelines.adequate
        /\ guidelines.adequate <= guidelines.optimal
        /\ guidelines.adequate <= guidelines.excessive )

\* after an update to adequate = 8, a record of 8 hours was classified optimal
C4_Witness ==
  /\ last.op = "validateSleepDuration"
  /\ supplied.adequate = 8
  /\ guidelines = [insufficient |-> 6, adequate |-> 8, optimal |-> 9, excessive |-> 10]
  /\ last.sleepData = [hours |-> 8, minutes |-> 0]
  /\ last.ret.status = "optimal"

\* a unit of a duration text: nothing for 0, singular for 1, plural otherwise
ClaimedUnit(n, name) ==
  IF n = 0 THEN <<>>
  ELSE Decimal(n) \o <<name>> \o (IF n = 1 THEN <<>> ELSE <<"s">>)

\* C9 as stated: for hours >= 0 and minutes in 0..59 the text is the hours
\* unit and the minutes unit, a unit of value 0 omitted, joined by " and "
\* when both are there
C9_ZeroUnitOmitted ==
  last.op = "formatSleepDuration" =>
    LET h == last.sleepData.hours
        m == last.sleepData.minutes
    IN last.ret = ClaimedUnit(h, " hour")
                  \o (IF h # 0 /\ m # 0 THEN <<" and ">> ELSE <<>>)
                  \o ClaimedUnit(m, " minute")

\* C9 as amended: as stated, except that the minutes unit is kept when both
\* values are 0, the text then being "0 minutes"
C9_ZeroUnitOmittedUnlessBoth ==
  last.op = "formatSleepDuration" =>
    LET h == last.sleepData.hours
        m == last.sleepData.minutes
    IN last.ret = IF h = 0 /\ m = 0 THEN <<"0", " minute", "s">>
                  ELSE ClaimedUnit(h, " hour")
                       \o (IF h # 0 /\ m # 0 THEN <<" and ">> ELSE <<>>)
                       \o ClaimedUnit(m, " minute")

\* 1 hour and 1 minute was written in the singular, joined by " and "
C9_Witness ==
  /\ last.op = "formatSleepDuration"
  /\ last.sleepData = [hours |-> 1, minutes |-> 1]
  /\ last.ret = <<"1", " hour", " and ", "1", " minute">>

-----------------------------------------------------------------------------
(* Every operation of a calculator, on small arguments *)

GuideConfigs ==
  { <<>>,
    [guidelines |-> [optimal |-> 8]],
    [guidelines |-> [insufficient |-> 5, adequate |-> 6, optimal |-> 8, excessive |-> 12]] }

GuidePartials ==
  { <<>>, [adequate |-> 8], [adequate |-> 5], [optimal |-> 5],
    [insufficient |-> 5, excessive |-> 8] }

\* "22:30", "07:15", "25:61"
GuideTimes ==
  { t \in TimeInputs :
      /\ t.kind = "string"
      /\ t.text \in { <<"2", "2", ":", "3", "0">>, <<"0", "7", ":", "1", "5">>,
                      <<"2", "5", ":", "6", "1">> } }

GuideRecords == { [hours |-> 8, minutes |-> 45], [hours |-> 5, minutes |-> 0] }

InitGuide ==
  /\ \E c \in GuideConfigs : Constructor(c, "UTC", Morning)
  /\ last = NoCall

GuideUpdate == \E p \in GuidePartials : UpdateGuidelines(p)

GuideValidate == \E r \in GuideRecords : Validate(r)

GuideFormat == \E r \in GuideRecords : Format(r)

\* calculateSleepDuration(bedtime, wakeUpTime)
GuideCalculate ==
  \E b \in GuideTimes, w \in GuideTimes :
    /\ last' = [op |-> "calculateSleepDuration", bedtime |-> b, wakeUpTime |-> w,
                options |-> <<>>, millis |-> <<0, 0>>,
                ret |-> CalculateSleepDuration(b, w, <<>>, clock, clock)]
    /\ UNCHANGED <<guidelines, defaultDate, defaultTimezone, sysZone, clock,
                   supplied, held>>

\* setDefaultTimezone(timezone)
GuideSetTimezone ==
  \E tz \in {"America/New_York", "Mars/Olympus"} :
    /\ defaultTimezone' = tz
    /\ last' = [op |-> "setDefaultTimezone"]
    /\ UNCHANGED <<guidelines, defaultDate, sysZone, clock, supplied, held>>

\* getGuidelines(): the caller holds what it returns
GuideGet ==
  /\ held' = GetGuidelines
  /\ last' = [op |-> "getGuidelines"]
  /\ UNCHANGED <<guidelines, defaultDate, defaultTimezone, sysZone, clock, supplied>>

\* the caller writes into the table it holds, which changes the calculator's
\* table if the two are one object
GuideWriteHeld ==
  /\ held # NoTable
  /\ held.table.adequate # 0
  /\ held' = [held EXCEPT !.table.adequate = 0]
  /\ guidelines' = IF held.shared THEN held'.table ELSE guidelines
  /\ last' = [op |-> "writeHeld"]
  /\ UNCHANGED <<defaultDate, defaultTimezone, sysZone, clock, supplied>>

NextGuide ==
  \/ GuideUpdate
  \/ GuideValidate
  \/ GuideFormat
  \/ GuideCalculate
  \/ GuideSetTimezone
  \/ GuideGet
  \/ GuideWriteHeld

SpecGuide == InitGuide /\ [][NextGuide]_vars

\* C10: each threshold of the table is the value most recently supplied for
\* it by the constructor's table or an updateGuidelines call, the default if
\* none was; no other operation, nor a write to a table getGuidelines
\* returned, changes it
C10_LastSupplied ==
  /\ DOMAIN guidelines = Thresholds
  /\ \A k \in Thresholds : guidelines[k] = supplied[k]

\* adequate was updated to 8, the table was fetched and the caller wrote
\* adequate = 0 into what it got
C10_Witness ==
  /\ last.op = "writeHeld"
  /\ held.table.adequate = 0
  /\ supplied.adequate = 8
  /\ guidelines.adequate = 8
  /\ guidelines.optimal = 5

-----------------------------------------------------------------------------
(* The same record classified twice *)

\* a calculator built with any table, and a record in hand to be classified
InitTwice ==
  /\ \E p \in Partials : Constructor([guidelines |-> p], "UTC", Morning)
  /\ \E r \in Records : last = [op |-> "record", given |-> r, sleepData |-> r]

\* validateSleepDuration with its first comparison written as an assignment to
\* the table (a faulty variant of Revalidate)
RevalidateFloorAssigned ==
  /\ \/ last.op = "record"
     \/ last.op = "validateSleepDuration" /\ last.before = <<>>
  /\ last' = [op |-> "validateSleepDuration",
              given |-> last.given,
              sleepData |-> last.sleepData,
              ret |-> ValidateSleepDuration(last.sleepData),
              before |-> IF last.op = "validateSleepDuration"
                         THEN <<last.ret>> ELSE <<>>]
  /\ guidelines' = [guidelines EXCEPT !.insufficient = last.sleepData.hours + 1]
  /\ UNCHANGED <<defaultDate, defaultTimezone, sysZone, clock, supplied, held>>

\* validateSleepDuration(sleepData) on the record in hand, a first and then a
\* second time: it reads hours and minutes of the record and the four
\* thresholds and assigns to neither; before holds the first call's result
Revalidate ==
  /\ \/ last.op = "record"
     \/ last.op = "validateSleepDuration" /\ last.before = <<>>
  /\ last' = [op |-> "validateSleepDuration",
              given |-> last.given,
              sleepData |-> last.sleepData,
              ret |-> ValidateSleepDuration(last.sleepData),
              before |-> IF last.op = "validateSleepDuration"
                         THEN <<last.ret>> ELSE <<>>]
  /\ UNCHANGED <<guidelines, defaultDate, defaultTimezone, sysZone, clock,
                 supplied, held>>

SpecTwice == InitTwice /\ [][Revalidate]_vars

-----------------------------------------------------------------------------
(* The record's hours and minutes *)

\* C12: in every record calculateSleepDuration returns, hours * 60 + minutes
\* = totalMinutes = floor(durationMs / 60000), hours >= 0 and 0 <= minutes <=
\* 59, and a duration below one minute gives hours = 0 and minutes = 0 with
\* durationMs > 0
C12_FloorDecomposition ==
  Returned =>
    LET data == last.ret.data
    IN /\ data.totalMinutes = Floor(data.durationMs, MsPerMinute)
       /\ data.hours * 60 + data.minutes = data.totalMinutes
       /\ data.hours >= 0
       /\ data.minutes >= 0
       /\ data.minutes <= 59
       /\ data.totalMinutes = 0 =>
            (data.hours = 0 /\ data.minutes = 0 /\ data.durationMs > 0)

-----------------------------------------------------------------------------
(* Date arguments and the time texts of the same clock time *)

\* the time text "HH:MM:SS" of the hour, minute and second a Date shows on
\* the host's clock; any other argument as it is
AsClockText(time) ==
  IF time.kind = "date"
  THEN LET w == WallOf(sysZone, time.instant) % MsPerDay
           c == Written(w \div MsPerHour, TRUE, (w % MsPerHour) \div MsPerMinute,
                        TRUE, (w % MsPerMinute) \div MsPerSecond, 0, <<>>)
       IN [kind |-> "string", text |-> Spell(c), spelling |-> c]
  ELSE time

\* C13: a call with a Date argument gives the result of the same call with
\* the time text of the Date's hour, minute and second in its place: the
\* Date's clock time is applied to the base date
C13_DateAsClockTime ==
  ( /\ last.op = "calculateSleepDuration"
    /\ (last.bedtime.kind = "date" \/ last.wakeUpTime.kind = "date") ) =>
    last.ret = CalculateSleepDuration(AsClockText(last.bedtime),
                                      AsClockText(last.wakeUpTime), last.options,
                                      clock + last.millis[1],
                                      clock + last.millis[2])

-----------------------------------------------------------------------------
(* The time zone when handleDST is false *)

\* the identifiers a caller may pass or set as the time zone
CalcTimezones == ZoneNames \cup {"Mars/Olympus"}

\* the base date of a call
EffectiveDate ==
  IF "date" \in DOMAIN last.options THEN last.options.date ELSE defaultDate

\* whether two results are the same but for the record's timezone field
SameButTimezone(r1, r2) ==
  /\ r1.thrown = r2.thrown
  /\ r1.thrown => r1.message = r2.message
  /\ ~r1.thrown =>
       \A f \in {"bedtime", "wakeUpTime", "durationMs", "totalMinutes",
                 "hours", "minutes"} : r1.data[f] = r2.data[f]

\* whether a call with handleDST false gives, but for the record's timezone
\* field, the result the same call has under any other time zone
TimezoneWithoutEffect ==
  \A tz \in CalcTimezones :
    SameButTimezone(last.ret,
                    CalculateWith(last.bedtime, last.wakeUpTime, tz,
                                  EffectiveDate, FALSE,
                                  clock + last.millis[1],
                                  clock + last.millis[2]))

\* whether handleDST: false was passed to the call that ran
DstOff ==
  /\ last.op = "calculateSleepDuration"
  /\ "handleDST" \in DOMAIN last.options
  /\ last.options.handleDST = FALSE

\* C14: with handleDST false, the time zone has no effect on the bedtime
\* instant, wake-up instant, durationMs, hours or minutes of the result, and
\* the record's timezone field is options.timezone when given and otherwise
\* the default time zone at the time of the call
C14_TimezoneOnlyLabels ==
  DstOff =>
    /\ TimezoneWithoutEffect
    /\ ~last.ret.thrown =>
         last.ret.data.timezone =
           (IF "timezone" \in DOMAIN last.options THEN last.options.timezone
            ELSE defaultTimezone)

\* C14, amended: with handleDST false, the time zone has no effect on the
\* bedtime instant, wake-up instant, durationMs, hours or minutes of the
\* result, and the record's timezone field is options.timezone when given and
\* not the empty text, and otherwise the default time zone at the time of the
\* call
C14_TimezoneOnlyLabelsUnlessEmpty ==
  DstOff =>
    /\ TimezoneWithoutEffect
    /\ ~last.ret.thrown => last.ret.data.timezone = EffectiveTimezone
    /\ ("timezone" \in DOMAIN last.options /\ last.options.timezone = ""
        /\ ~last.ret.thrown) =>
         last.ret.data.timezone = defaultTimezone

\* on a New York host after setDefaultTimezone("Mars/Olympus"), "22:30" to
\* "07:15" with only handleDST: false gave 8 hours 45 minutes, labelled
\* Mars/Olympus
C14_Witness ==
  /\ Returned
  /\ sysZone = "America/New_York"
  /\ defaultTimezone = "Mars/Olympus"
  /\ last.options = [handleDST |-> FALSE]
  /\ last.bedtime.kind = "string"
  /\ last.bedtime.text = <<"2", "2", ":", "3", "0">>
  /\ last.wakeUpTime.kind = "string"
  /\ last.wakeUpTime.text = <<"0", "7", ":", "1", "5">>
  /\ last.ret.data.timezone = "Mars/Olympus"
  /\ last.ret.data.hours = 8
  /\ last.ret.data.minutes = 45
  /\ last.ret.data.durationMs = 31500000

=============================================================================
